---------------------------- MODULE Spec2Model ----------------------------
(***************************************************************************)
(* geotime: a 128-bit signed millisecond timestamp (Geotime), its          *)
(* order-preserving textual encodings (Lexical16, Lexical32,               *)
(* LexicalGeohash, Lexical64) and its conversions to 64-bit milliseconds,  *)
(* to a chrono DateTime<Utc> and to a display string.                      *)
(*                                                                         *)
(* Wide integers are kept at their full width: an i128 is the sequence of  *)
(* its 16 big-endian two's-complement bytes (what to_be_bytes returns), an *)
(* i64 the sequence of its 8 bytes.  Strings are sequences of ASCII code   *)
(* points.                                                                 *)
(***************************************************************************)
EXTENDS Integers, Sequences, FiniteSets

VARIABLES
    ts,        \* the Geotime under test: 16 big-endian bytes of its i128
    other,     \* a second Geotime, compared with ts
    alphabet,  \* which encoded form is in use
    text,      \* the string handed over: serialize's output, visit_str's input
    otherText, \* the serialization of other
    dt,        \* a chrono DateTime<Utc>: [secs (i64 bytes), nsecs]
    narrow,    \* the i64 a Geotime was widened from
    chrono,    \* the last call of NaiveDateTime::from_timestamp_opt
    op,        \* the operation that acted last
    res        \* what it returned

vars == <<ts, other, alphabet, text, otherText, dt, narrow, chrono, op, res>>

-----------------------------------------------------------------------------
(* Bounds of the model. *)

\* Sampled byte values beyond the fixed edge bytes 0, 1, 127, 128, 255.
MaxByteSamples == 1
\* Symbols cut from, or appended to, a serialization before it is decoded.
MaxCut == 3
\* Whole seconds either side of the epoch among the calendar instants.
MaxSecs == 2

-----------------------------------------------------------------------------
(* Fixed-width integer arithmetic on big-endian byte sequences. *)

Pow2(k) == 2 ^ k

\* Sequences are built as tuples (`\o <<>>` leaves the value unchanged).
Fill(n, b) == [i \in 1..n |-> b] \o <<>>

IsNeg(bs) == bs[1] >= 128

\* Unsigned comparison, most significant byte first.
ULt(a, b) ==
    \E i \in 1..Len(a) : a[i] < b[i] /\ \A j \in 1..(i - 1) : a[j] = b[j]

\* Signed (two's complement) comparison.
SLt(a, b) ==
    IF IsNeg(a) # IsNeg(b) THEN IsNeg(a) ELSE ULt(a, b)

\* bs * m + c modulo 256^Len(bs), for small m and c.
MulAddSmall(bs, m, c) ==
    LET n == Len(bs)
        carry[i \in 0..n] ==
            \* carry into byte n - i
            IF i = 0 THEN c ELSE (bs[n - i + 1] * m + carry[i - 1]) \div 256
    IN  [i \in 1..n |-> (bs[i] * m + carry[n - i]) % 256] \o <<>>

\* Two's complement negation (wrapping).
Negate(bs) == MulAddSmall([i \in 1..Len(bs) |-> 255 - bs[i]] \o <<>>, 1, 1)

\* Unsigned long division by a small divisor d.
URemPrefix(bs, d) ==
    LET r[i \in 0..Len(bs)] ==
            IF i = 0 THEN 0 ELSE (r[i - 1] * 256 + bs[i]) % d
    IN  r

UDivSmall(bs, d) ==
    LET r == URemPrefix(bs, d)
    IN  [i \in 1..Len(bs) |-> (r[i - 1] * 256 + bs[i]) \div d] \o <<>>

UModSmall(bs, d) == URemPrefix(bs, d)[Len(bs)]

\* The magnitude |n| of a signed value, as an unsigned value of the same width.
Magnitude(bs) == IF IsNeg(bs) THEN Negate(bs) ELSE bs

\* Rust's `/` and `%` on signed integers: the quotient truncates toward zero
\* and the remainder takes the sign of the dividend.
TruncDiv(bs, d) ==
    IF IsNeg(bs) THEN Negate(UDivSmall(Negate(bs), d)) ELSE UDivSmall(bs, d)

TruncRem(bs, d) ==
    IF IsNeg(bs) THEN 0 - UModSmall(Negate(bs), d) ELSE UModSmall(bs, d)

\* Sign extension of a narrower integer (i32, i64 -> i128).
SignExtend(bs, n) ==
    Fill(n - Len(bs), IF IsNeg(bs) THEN 255 ELSE 0) \o bs

\* A small integer as an n-byte two's complement value.
OfInt(k, n) ==
    IF k >= 0 THEN MulAddSmall(Fill(n, 0), 1, k)
    ELSE Negate(MulAddSmall(Fill(n, 0), 1, 0 - k))


-----------------------------------------------------------------------------
(* The sign-flip transform. *)

\* n ^ (1 << 126): the mask one bit short of the sign bit.
lexify_bit126(n) == [n EXCEPT ![1] = ((n[1] \div 128) * 128) + ((n[1] + 64) % 128)]

\* n ^ (1 << 127): 1 << 127 has bit 127 alone set, the top bit of the first
\* big-endian byte, and XOR flips it (adding 128 modulo 256 flips bit 7).
lexify(n) == [n EXCEPT ![1] = (n[1] + 128) % 256]

\* A decoder that forgets to undo the sign flip.
delexify_noflip(n) == n

delexify(n) == [n EXCEPT ![1] = (n[1] + 128) % 256]

-----------------------------------------------------------------------------
(* Results of the fallible operations. *)

NoValue == <<>>

Ok(v) == [kind |-> "Ok", value |-> v, error |-> "none"]

Err(e) == [kind |-> "Err", value |-> NoValue, error |-> e]

\* The call did not return: an index out of range, an unwrap of None.
Panic(e) == [kind |-> "Panic", value |-> NoValue, error |-> e]

IsOk(r) == r.kind = "Ok"

-----------------------------------------------------------------------------
(* The alphabets, as ASCII code points in symbol order. *)

\* hex::encode's table "0123456789abcdef"
\* The digits of hex::encode_upper.
HEX_CHARS_UPPER ==
    <<48, 49, 50, 51, 52, 53, 54, 55, 56, 57, 65, 66, 67, 68, 69, 70>>

HEX_CHARS_LOWER ==
    <<48, 49, 50, 51, 52, 53, 54, 55, 56, 57, 97, 98, 99, 100, 101, 102>>

\* data_encoding::BASE32HEX_NOPAD: "0123456789ABCDEFGHIJKLMNOPQRSTUV"
BASE32HEX_SYMBOLS ==
    <<48, 49, 50, 51, 52, 53, 54, 55, 56, 57,
      65, 66, 67, 68, 69, 70, 71, 72, 73, 74, 75, 76, 77, 78, 79, 80,
      81, 82, 83, 84, 85, 86>>

\* "0123456789bcdefghjkmnpqrstuvwxyz"
GEOHASH_SYMBOLS ==
    <<48, 49, 50, 51, 52, 53, 54, 55, 56, 57,
      98, 99, 100, 101, 102, 103, 104, 106, 107, 109, 110, 112, 113, 114,
      115, 116, 117, 118, 119, 120, 121, 122>>

\* "0123456789=ABCDEFGHIJKLMNOPQRSTUVWXYZ_abcdefghijklmnopqrstuvwxyz"
\* The standard base-64 alphabet, A-Z a-z 0-9 + /, whose ranks do not follow
\* the code points.
BASE64_SYMBOLS ==
    <<65, 66, 67, 68, 69, 70, 71, 72, 73, 74, 75, 76, 77, 78, 79, 80, 81, 82,
      83, 84, 85, 86, 87, 88, 89, 90, 97, 98, 99, 100, 101, 102, 103, 104, 105,
      106, 107, 108, 109, 110, 111, 112, 113, 114, 115, 116, 117, 118, 119,
      120, 121, 122, 48, 49, 50, 51, 52, 53, 54, 55, 56, 57, 43, 47>>

LEXICAL64_SYMBOLS ==
    <<48, 49, 50, 51, 52, 53, 54, 55, 56, 57, 61,
      65, 66, 67, 68, 69, 70, 71, 72, 73, 74, 75, 76, 77, 78, 79, 80,
      81, 82, 83, 84, 85, 86, 87, 88, 89, 90, 95,
      97, 98, 99, 100, 101, 102, 103, 104, 105, 106, 107, 108, 109, 110,
      111, 112, 113, 114, 115, 116, 117, 118, 119, 120, 121, 122>>

\* An Encoding of data_encoding: `bit` bits per symbol, no padding, no
\* translation, no ignored characters, trailing bits checked.
BASE32HEX_NOPAD == [bit |-> 5, symbols |-> BASE32HEX_SYMBOLS]

GEOHASH == [bit |-> 5, symbols |-> GEOHASH_SYMBOLS]

LEXICAL64 == [bit |-> 6, symbols |-> LEXICAL64_SYMBOLS]

-----------------------------------------------------------------------------
(* hex::encode and hex::decode. *)

\* Each byte gives two symbols: the high nibble, then the low nibble.
HexEncode(bytes) ==
    [j \in 1..(2 * Len(bytes)) |->
        LET b == bytes[(j + 1) \div 2]
        IN  HEX_CHARS_LOWER[(IF j % 2 = 1 THEN b \div 16 ELSE b % 16) + 1]]

\* The value of one hex digit, either case; -1 for any other character.
HexVal(c) ==
    IF c >= 48 /\ c <= 57 THEN c - 48
    ELSE IF c >= 97 /\ c <= 102 THEN c - 87
    ELSE IF c >= 65 /\ c <= 70 THEN c - 55
    ELSE -1

HexDecode(s) ==
    IF Len(s) % 2 # 0 THEN Err("OddLength")
    ELSE IF \E j \in 1..Len(s) : HexVal(s[j]) < 0 THEN Err("InvalidHexCharacter")
    ELSE Ok([k \in 1..(Len(s) \div 2) |->
                HexVal(s[2 * k - 1]) * 16 + HexVal(s[2 * k])])

-----------------------------------------------------------------------------
(* data_encoding::Encoding: encode, decode_len, decode_mut. *)

\* Symbol j (from 0) holds bits j*bit .. j*bit+bit-1 of the input read most
\* significant bit first; bits past the end of the input are zero.
EncodeValue(enc, bytes, j) ==
    LET o  == j * enc.bit
        i  == o \div 8
        s  == o % 8
        hi == bytes[i + 1]
        lo == IF i + 2 <= Len(bytes) THEN bytes[i + 2] ELSE 0
    IN  ((hi * 256 + lo) \div Pow2(16 - s - enc.bit)) % Pow2(enc.bit)

\* The encoding of a specification with padding: '=' up to a whole block of
\* 40 bits (base 32) or 24 bits (base 64).
Encoding_encode_padded(enc, bytes) ==
    LET n     == (8 * Len(bytes) + enc.bit - 1) \div enc.bit
        block == IF enc.bit = 5 THEN 8 ELSE 4
        total == ((n + block - 1) \div block) * block
    IN  [j \in 1..total |->
            IF j <= n THEN enc.symbols[EncodeValue(enc, bytes, j - 1) + 1] ELSE 61]

Encoding_encode(enc, bytes) ==
    [j \in 1..((8 * Len(bytes) + enc.bit - 1) \div enc.bit) |->
        enc.symbols[EncodeValue(enc, bytes, j - 1) + 1]]

\* Without padding a length is valid when its trailing bits hold no whole
\* symbol; the decoded length is the number of whole bytes.
Encoding_decode_len(enc, len) ==
    LET trail == (enc.bit * len) % 8
    IN  IF trail \div enc.bit # 0 THEN Err("Length")
        ELSE Ok((enc.bit * len) \div 8)

\* The value of a symbol, -1 for a character that is not a symbol.
SymbolValue(enc, c) ==
    IF \E v \in 1..Len(enc.symbols) : enc.symbols[v] = c
    THEN (CHOOSE v \in 1..Len(enc.symbols) : enc.symbols[v] = c) - 1
    ELSE -1

\* Byte k (from 0) of the output: bits 8k .. 8k+7 of the symbol values.
DecodeByte(enc, vals, k) ==
    LET j  == (8 * k) \div enc.bit
        s  == (8 * k) % enc.bit
        at(x) == IF x <= Len(vals) THEN vals[x] ELSE 0
        w  == (at(j + 1) * Pow2(enc.bit) + at(j + 2)) * Pow2(enc.bit) + at(j + 3)
    IN  (w \div Pow2(3 * enc.bit - s - 8)) % 256

Encoding_decode_mut(enc, input) ==
    LET vals  == [j \in 1..Len(input) |-> SymbolValue(enc, input[j])]
        olen  == (enc.bit * Len(input)) \div 8
        trail == enc.bit * Len(input) - 8 * olen
    IN  IF \E j \in 1..Len(input) : vals[j] < 0 THEN Err("Symbol")
        ELSE IF trail > 0 /\ vals[Len(input)] % Pow2(trail) # 0 THEN Err("Trailing")
        ELSE Ok([k \in 1..olen |-> DecodeByte(enc, vals, k - 1)])

-----------------------------------------------------------------------------
(* Serialize and Visitor::visit_str of the four encoded forms. *)

Lexical16_serialize(n) == HexEncode(lexify(n))

Lexical32_serialize(n) == Encoding_encode(BASE32HEX_NOPAD, lexify(n))

LexicalGeohash_serialize(n) == Encoding_encode(GEOHASH, lexify(n))

Lexical64_serialize(n) == Encoding_encode(LEXICAL64, lexify(n))

\* b.copy_from_slice(&bytes[0..16]): the range panics on fewer than 16
\* bytes, and takes the first 16 of more.
CopyFromSlice16(bytes) ==
    IF Len(bytes) < 16 THEN Panic("range end index 16 out of range")
    ELSE Ok(delexify(SubSeq(bytes, 1, 16)))

Lexical16Visitor_visit_str(v) ==
    LET bytes == HexDecode(v)
    IN  IF ~IsOk(bytes) THEN bytes ELSE CopyFromSlice16(bytes.value)

EncodingVisitor_visit_str(enc, v) ==
    LET size   == Encoding_decode_len(enc, Len(v))
        output == Encoding_decode_mut(enc, v)
    IN  IF ~IsOk(size) THEN size
        ELSE IF ~IsOk(output) THEN output
        ELSE CopyFromSlice16(output.value)

Lexical32Visitor_visit_str(v) == EncodingVisitor_visit_str(BASE32HEX_NOPAD, v)

LexicalGeohashVisitor_visit_str(v) == EncodingVisitor_visit_str(GEOHASH, v)

Lexical64Visitor_visit_str(v) == EncodingVisitor_visit_str(LEXICAL64, v)

Alphabets == {"Lexical16", "Lexical32", "LexicalGeohash", "Lexical64"}

serialize(a, n) ==
    CASE a = "Lexical16" -> Lexical16_serialize(n)
      [] a = "Lexical32" -> Lexical32_serialize(n)
      [] a = "LexicalGeohash" -> LexicalGeohash_serialize(n)
      [] a = "Lexical64" -> Lexical64_serialize(n)

visit_str(a, v) ==
    CASE a = "Lexical16" -> Lexical16Visitor_visit_str(v)
      [] a = "Lexical32" -> Lexical32Visitor_visit_str(v)
      [] a = "LexicalGeohash" -> LexicalGeohashVisitor_visit_str(v)
      [] a = "Lexical64" -> Lexical64Visitor_visit_str(v)

\* The symbols of an encoded form, in rank order.
SymbolsOf(a) ==
    CASE a = "Lexical16" -> HEX_CHARS_LOWER
      [] a = "Lexical32" -> BASE32HEX_SYMBOLS
      [] a = "LexicalGeohash" -> GEOHASH_SYMBOLS
      [] a = "Lexical64" -> LEXICAL64_SYMBOLS

-----------------------------------------------------------------------------
(* Geotime and its constructors. *)

\* impl From<i128> for Geotime
From_i128(n) == n

\* impl From<i64> for Geotime: n.into() widens with sign extension.
From_i64(n) == SignExtend(n, 16)

\* impl From<i32> for Geotime: n as i128.
From_i32(n) == From_i128(SignExtend(n, 16))

\* Named integers of the tests and doc comments, computed as written there.
Mul(bs, m) == MulAddSmall(bs, m, 0)

RECURSIVE Pow10(_)
Pow10(e) == IF e = 0 THEN OfInt(1, 16) ELSE Mul(Pow10(e - 1), 10)

I32_MAX == <<127, 255, 255, 255>>

I64_MAX == <<127, 255, 255, 255, 255, 255, 255, 255>>

I64_MIN == <<128, 0, 0, 0, 0, 0, 0, 0>>

I128_MAX == <<127>> \o Fill(15, 255)

I128_MIN == <<128>> \o Fill(15, 0)

-----------------------------------------------------------------------------
(* The inputs of the model. *)

ByteChoices == {0, 1, 127, 128, 255} \cup {(85 * i) % 256 : i \in 1..MaxByteSamples}

\* hi in every byte above position k, b at position k, lo in every byte below.
Pattern(hi, k, b, lo) ==
    [i \in 1..16 |-> IF i < k THEN hi ELSE IF i = k THEN b ELSE lo] \o <<>>

PatternValues ==
    {Pattern(hi, k, b, lo) : hi \in {0, 255}, k \in 1..16, b \in ByteChoices, lo \in {0, 255}}

\* The values of tests::lexical_*::serde and tests::chrono::display_string.
TestValues ==
    { Negate(Pow10(21)), OfInt(-100, 16), OfInt(-1, 16), OfInt(0, 16),
      OfInt(1, 16), OfInt(100, 16), Pow10(21),
      Mul(From_i32(I32_MAX), 1000),
      MulAddSmall(SignExtend(I64_MAX, 16), 1, 1),
      SignExtend(I64_MIN, 16),
      Mul(SignExtend(I64_MAX, 16), 100),
      Negate(Mul(SignExtend(I64_MAX, 16), 100)),
      Mul(Mul(Mul(Negate(MulAddSmall(Negate(Pow10(12)), 1, 1)), 86400), 356), 1000),
      Negate(Mul(Mul(Mul(Negate(MulAddSmall(Negate(Pow10(12)), 1, 1)), 86400), 356), 1000)),
      I128_MIN }

Values == PatternValues \cup TestValues

-----------------------------------------------------------------------------
(* The codec: a Geotime is built, serialized in one encoded form, the string *)
(* is possibly damaged on its way, and it is deserialized.                   *)

NoCall == [called |-> FALSE, secs |-> <<>>, nsecs |-> <<>>]

EPOCH == [secs |-> Fill(8, 0), nsecs |-> 0]

None == [kind |-> "None", value |-> NoValue, error |-> "none"]

Init ==
    /\ ts = From_i128(OfInt(0, 16))
    /\ other = From_i128(OfInt(0, 16))
    /\ alphabet = "Lexical16"
    /\ text = <<>>
    /\ otherText = <<>>
    /\ dt = EPOCH
    /\ narrow = Fill(8, 0)
    /\ chrono = NoCall
    /\ op = "new"
    /\ res = None

\* Geotime::from(n), before any other operation on the timestamp.
New(n) ==
    /\ op = "new"
    /\ ts' = From_i128(n)
    /\ text' = <<>>
    /\ op' = "new"
    /\ res' = None
    /\ UNCHANGED <<other, alphabet, otherText, dt, narrow, chrono>>

\* Lexical*::from(ts).serialize(...)
Serialize(a) ==
    /\ op = "new"
    /\ alphabet' = a
    /\ text' = serialize(a, ts)
    /\ op' = "serialized"
    /\ UNCHANGED <<ts, other, otherText, dt, narrow, chrono, res>>

\* The string loses its last k symbols.
Truncate(k) ==
    /\ op = "serialized"
    /\ k <= Len(text)
    /\ text' = SubSeq(text, 1, Len(text) - k)
    /\ op' = "truncated"
    /\ UNCHANGED <<ts, other, alphabet, otherText, dt, narrow, chrono, res>>

\* The string gains k more symbols c.
Extend(k, c) ==
    /\ op = "serialized"
    /\ text' = text \o Fill(k, c)
    /\ op' = "extended"
    /\ UNCHANGED <<ts, other, alphabet, otherText, dt, narrow, chrono, res>>

\* The symbol at position p becomes c.
Replace(p, c) ==
    /\ op = "serialized"
    /\ p \in 1..Len(text)
    /\ text[p] # c
    /\ text' = [text EXCEPT ![p] = c]
    /\ op' = "replaced"
    /\ UNCHANGED <<ts, other, alphabet, otherText, dt, narrow, chrono, res>>

\* Lexical*::deserialize(...): Visitor::visit_str on the string.
Deserialize ==
    /\ op \in {"serialized", "truncated", "extended", "replaced"}
    /\ res' = visit_str(alphabet, text)
    /\ op' = IF op = "serialized" THEN "roundtrip" ELSE "decoded"
    /\ UNCHANGED <<ts, other, alphabet, text, otherText, dt, narrow, chrono>>

\* Characters put into a string: ! 0 1 A W a i ~
TamperChars == {33, 48, 49, 65, 87, 97, 105, 126}

\* A symbol is replaced at the first or at the last position of the string.
TamperPositions(n) == {1, n}

Next ==
    \/ \E n \in Values : New(n)
    \/ \E a \in Alphabets : Serialize(a)
    \/ \E k \in 1..MaxCut : Truncate(k)
    \/ \E k \in 1..MaxCut : Extend(k, 48)
    \/ \E p \in TamperPositions(Len(text)), c \in TamperChars : Replace(p, c)
    \/ Deserialize

Spec == Init /\ [][Next]_vars

-----------------------------------------------------------------------------
(* Ordering: two timestamps are serialized in the same encoded form, and   *)
(* sign-flipped, side by side.                                             *)

\* n + 1, wrapping.
Succ(n) == MulAddSmall(n, 1, 1)

Others(n) == TestValues \cup {Succ(n), Negate(n), Negate(Succ(n))}

NewOther(m) ==
    /\ op = "new"
    /\ other' = From_i128(m)
    /\ op' = "pair"
    /\ UNCHANGED <<ts, alphabet, text, otherText, dt, narrow, chrono, res>>

SerializeBoth(a) ==
    /\ op = "pair"
    /\ alphabet' = a
    /\ text' = serialize(a, ts)
    /\ otherText' = serialize(a, other)
    /\ op' = "compared"
    /\ UNCHANGED <<ts, other, dt, narrow, chrono, res>>

LexifyBoth ==
    /\ op = "pair"
    /\ res' = Ok(<<lexify(ts), lexify(other)>>)
    /\ op' = "lexified"
    /\ UNCHANGED <<ts, other, alphabet, text, otherText, dt, narrow, chrono>>

NextOrder ==
    \/ \E n \in Values : New(n)
    \/ \E m \in Others(ts) : NewOther(m)
    \/ \E a \in Alphabets : SerializeBoth(a)
    \/ LexifyBoth

SpecOrder == Init /\ [][NextOrder]_vars

\* a < b character by character in code-point order (str::cmp): the first
\* difference decides, and a proper prefix sorts first.
StrLt(a, b) ==
    \E i \in 1..Len(b) :
        /\ \A j \in 1..(i - 1) : j <= Len(a) /\ a[j] = b[j]
        /\ i > Len(a) \/ a[i] < b[i]

-----------------------------------------------------------------------------
(* Conversions to 64-bit milliseconds and to chrono's DateTime<Utc>. *)

\* `n as i64`: the low 8 bytes, whatever the upper ones.
TruncatingCast_i64(n) == Ok(SubSeq(n, 9, 16))

\* i64::try_from(i128): the value fits when its upper 8 bytes are the sign
\* extension of the lower 8.
TryFrom_i64(n) ==
    LET low == SubSeq(n, 9, 16)
    IN  IF SubSeq(n, 1, 8) = Fill(8, IF IsNeg(low) THEN 255 ELSE 0)
        THEN Ok(low)
        ELSE Err("TryFromInt")

\* Geotime::timestamp_millis
timestamp_millis(n) == TryFrom_i64(n)

\* chrono 0.4: the seconds of -262144-01-01T00:00:00 and of
\* +262143-12-31T23:59:59, the first and last second of a NaiveDateTime.
CHRONO_MIN_SECS == <<255, 255, 248, 107, 113, 42, 23, 128>>

CHRONO_MAX_SECS == <<0, 0, 7, 119, 155, 235, 158, 255>>

\* The largest nanosecond field chrono takes, leap second included.
CHRONO_NSECS_LIMIT == OfInt(2000000000, 4)

\* An unsigned value below 2^31 as an integer.
ToInt(bs) ==
    LET v[i \in 0..Len(bs)] == IF i = 0 THEN 0 ELSE v[i - 1] * 256 + bs[i]
    IN  v[Len(bs)]

\* NaiveDateTime::from_timestamp_opt(secs: i64, nsecs: u32), then
\* DateTime::from_utc.
from_timestamp_opt(secs, nsecs) ==
    IF /\ ~SLt(secs, CHRONO_MIN_SECS)
       /\ ~SLt(CHRONO_MAX_SECS, secs)
       /\ ULt(nsecs, CHRONO_NSECS_LIMIT)
    THEN Ok([secs |-> secs, nsecs |-> ToInt(nsecs)])
    ELSE Err("Chrono")

\* The arguments try_from hands to from_timestamp_opt:
\* (n / 1000, ((n % 1000) * 1000) as u32).
SplitSecs(n) == TruncDiv(n, 1000)

SplitNsecs(n) == OfInt(TruncRem(n, 1000) * 1000, 4)

\* impl TryFrom<Geotime> for DateTime<Utc>
try_from(value) ==
    LET n == TryFrom_i64(value)
    IN  IF ~IsOk(n) THEN n
        ELSE from_timestamp_opt(SplitSecs(n.value), SplitNsecs(n.value))

\* DateTime::timestamp_millis: whole seconds times 1000 plus the
\* milliseconds of the nanosecond field.
DateTime_timestamp_millis(t) == MulAddSmall(t.secs, 1000, t.nsecs \div 1000000)

\* impl From<&DateTime<Utc>> for Geotime
From_DateTime(t) == From_i64(DateTime_timestamp_millis(t))

-----------------------------------------------------------------------------
(* Geotime::display_string. *)

SECONDS_IN_DAY == 86400

\* SECONDS_IN_DAY * 356 * 1000, in `width` bytes.
MILLISECONDS_IN_YEAR_APPROX(width) ==
    Mul(Mul(OfInt(SECONDS_IN_DAY, width), 356), 1000)

\* MAX_YEARS = 1000000000000.0 = 10^12
MAX_YEARS_EXP == 12

\* human_format's SI scale has 8 suffixes: K M B T P E Z Y.
SI_SUFFIXES == 8

\* x * 10^e, wrapping.
RECURSIVE Scale10(_, _)
Scale10(x, e) == IF e = 0 THEN x ELSE Mul(Scale10(x, e - 1), 10)

\* An unsigned value in w bytes.
Widen(x, w) == Fill(w - Len(x), 0) \o x

\* Sum of two values of the same width, wrapping.
AddBytes(a, b) ==
    LET n == Len(a)
        carry[i \in 0..n] ==
            IF i = 0 THEN 0 ELSE (a[n - i + 1] + b[n - i + 1] + carry[i - 1]) \div 256
    IN  [i \in 1..n |-> (a[i] + b[i] + carry[n - i]) % 256] \o <<>>

Bits(bs) ==
    [i \in 1..(8 * Len(bs)) |->
        (bs[(i + 7) \div 8] \div Pow2(7 - ((i - 1) % 8))) % 2] \o <<>>

OfBits(bits) ==
    [k \in 1..(Len(bits) \div 8) |->
        LET b(j) == bits[8 * (k - 1) + j]
        IN  128 * b(1) + 64 * b(2) + 32 * b(3) + 16 * b(4)
              + 8 * b(5) + 4 * b(6) + 2 * b(7) + b(8)] \o <<>>

\* `as f64` on a magnitude: the nearest value with 53 significant bits, ties
\* to the even one.  The result is held as the integer it denotes.
AsF64(m) ==
    LET bits == Bits(m)
        n    == Len(bits)
        ones == {i \in 1..n : bits[i] = 1}
    IN  IF ones = {} THEN m
        ELSE
          LET top  == CHOOSE i \in ones : \A j \in ones : i <= j
              last == top + 52
          IN  IF last >= n THEN m
              ELSE
                LET guard  == bits[last + 1] = 1
                    sticky == \E i \in (last + 2)..n : bits[i] = 1
                    up     == guard /\ (sticky \/ bits[last] = 1)
                    \* the carry into bit i: the increment ripples through
                    \* the ones below it
                    cin == [i \in 1..last |->
                        IF up /\ \A j \in (i + 1)..last : bits[j] = 1
                        THEN 1 ELSE 0] \o <<>>
                IN  OfBits([i \in 1..n |->
                        IF i > last THEN 0 ELSE (bits[i] + cin[i]) % 2] \o <<>>)

\* A display without the ceiling: every year count goes to human_format.
YearsUnbounded(f, exp) == TRUE

\* years < MAX_YEARS, where years = |ms as f64| / (MILLISECONDS_IN_YEAR_APPROX
\* as f64) is rounded to the nearest f64.  Doubles are 2^-13 apart below
\* 10^12, and the tie at 10^12 - 2^-14 rounds up to 10^12 (the even one), so
\* the rounded quotient f / y is below 10^12 exactly when
\* f / y < 10^12 - 2^-14, that is f * 2^14 + y < 10^12 * y * 2^14.
YearsBelow(f, exp) ==
    ULt(AddBytes(Mul(Widen(f, 24), 16384), MILLISECONDS_IN_YEAR_APPROX(24)),
        Mul(Scale10(MILLISECONDS_IN_YEAR_APPROX(24), exp), 16384))

\* The whole years in f milliseconds.
WholeYears(f) == UDivSmall(UDivSmall(UDivSmall(f, 1000), SECONDS_IN_DAY), 356)

\* human_format's Scales::to_scaled_value: the value is divided by 1000, and
\* the index raised by one, until it is below 1000.  (On the whole years: the fraction and the rounding of the
\* quotient move a value across a power of 1000 only within one part in
\* 2^52.)
RECURSIVE ScaleLoop(_, _)
ScaleLoop(value, index) ==
    IF ULt(value, OfInt(1000, Len(value))) THEN index
    ELSE ScaleLoop(UDivSmall(value, 1000), index + 1)

ScaleIndex(years) == ScaleLoop(years, 0)

\* Formatter::new().format(years): the suffix is suffixes[index - 1], an
\* index past the last suffix panics.
Formatter_format(years) ==
    LET index == ScaleIndex(years)
    IN  IF index > SI_SUFFIXES THEN Panic("index out of bounds")
        ELSE Ok([scaled |-> years, suffix |-> index])

\* The string is held as its parts: the tier that produced it, the
\* description, the unit and the direction.
Shown(tier, desc, unit, dir) ==
    Ok([tier |-> tier, desc |-> desc, unit |-> unit, dir |-> dir])

\* Geotime::display_string(format), for a pattern chrono can format.
display_string(n) ==
    LET t == try_from(n)
    IN  IF IsOk(t) THEN Shown("calendar", t.value, "", "")
        ELSE
          \* years = (self.0 as f64) / (MILLISECONDS_IN_YEAR_APPROX as f64);
          \* the quotient has the sign of self.0 and f is |self.0 as f64|.
          LET f     == AsF64(Magnitude(n))
              past  == IsNeg(n)
              dir   == IF past THEN "ago" ELSE "from now"
          IN  IF YearsBelow(f, MAX_YEARS_EXP)
              THEN LET d == Formatter_format(WholeYears(f))
                   IN  IF IsOk(d) THEN Shown("years", d.value, "years", dir) ELSE d
              ELSE Shown("debug", n, "ms", dir)

-----------------------------------------------------------------------------
(* Time: a Geotime is built from an integer, from an i64 or from a calendar *)
(* instant, and converted or displayed.                                     *)

\* Milliseconds around the epoch, whole seconds and not.
SmallMillis ==
    {OfInt(q * 1000 + r, 16) : q \in (0 - MaxSecs)..MaxSecs, r \in {0, 1, 500, 999}}

\* The first magnitudes display_string shows in the debug form, and the last
\* it shows in years: 10^12 years less 2^21 ms, and one millisecond less.
CeilingYears == Scale10(MILLISECONDS_IN_YEAR_APPROX(16), MAX_YEARS_EXP)

CeilingBand == AddBytes(CeilingYears, Negate(OfInt(2097152, 16)))

CeilingValues ==
    UNION {{x, Negate(x)} :
        x \in {CeilingYears, AddBytes(CeilingYears, Negate(OfInt(1, 16))),
               CeilingBand, AddBytes(CeilingBand, Negate(OfInt(1, 16)))}}

TimeValues == Values \cup SmallMillis \cup CeilingValues

I64Values ==
    {SubSeq(n, 9, 16) : n \in SmallMillis} \cup {I64_MIN, I64_MAX}
        \cup {SubSeq(n, 9, 16) : n \in PatternValues}

\* 1800-01-01T00:00:00, of tests::chrono::from_chrono.
SECS_1800 == <<255, 255, 255, 254, 192, 61, 191, 128>>

DateTimes ==
    [secs : {OfInt(q, 8) : q \in (0 - MaxSecs)..MaxSecs}
                \cup {SECS_1800, CHRONO_MIN_SECS, CHRONO_MAX_SECS},
     nsecs : {0, 1000000, 1500000, 500000000, 999000000, 999999999}]

\* Geotime::from(n: i64)
NewNarrow(n) ==
    /\ op = "new"
    /\ narrow' = n
    /\ ts' = From_i64(n)
    /\ op' = "widened"
    /\ UNCHANGED <<other, alphabet, text, otherText, dt, chrono, res>>

\* Geotime::from(&dt)
NewInstant(t) ==
    /\ op = "new"
    /\ dt' = t
    /\ ts' = From_DateTime(t)
    /\ op' = "instant"
    /\ UNCHANGED <<other, alphabet, text, otherText, narrow, chrono, res>>

TimestampMillis ==
    /\ op \in {"new", "widened"}
    /\ res' = timestamp_millis(ts)
    /\ op' = IF op = "widened" THEN "narrowed" ELSE "timestamp_millis"
    /\ UNCHANGED <<ts, other, alphabet, text, otherText, dt, narrow, chrono>>

\* DateTime::try_from(ts)
TryFromGeotime ==
    /\ op \in {"new", "instant"}
    /\ res' = try_from(ts)
    /\ chrono' = LET n == TryFrom_i64(ts)
                 IN  IF IsOk(n)
                     THEN [called |-> TRUE, secs |-> SplitSecs(n.value),
                           nsecs |-> SplitNsecs(n.value)]
                     ELSE NoCall
    /\ op' = IF op = "instant" THEN "calendar_roundtrip" ELSE "try_from"
    /\ UNCHANGED <<ts, other, alphabet, text, otherText, dt, narrow>>

DisplayString ==
    /\ op = "new"
    /\ res' = display_string(ts)
    /\ op' = "display"
    /\ UNCHANGED <<ts, other, alphabet, text, otherText, dt, narrow, chrono>>

NextTime ==
    \/ \E n \in TimeValues : New(n)
    \/ \E n \in I64Values : NewNarrow(n)
    \/ \E t \in DateTimes : NewInstant(t)
    \/ TimestampMillis
    \/ TryFromGeotime
    \/ DisplayString

SpecTime == Init /\ [][NextTime]_vars

-----------------------------------------------------------------------------
(* Properties of the codec. *)

\* C1: decoding the string produced by encoding x succeeds and returns
\* exactly x, in each of the four encoded forms.
RoundTrip == op = "roundtrip" => res = Ok(ts)

RoundTripWitness ==
    /\ op = "roundtrip"
    /\ alphabet = "Lexical64"
    /\ ts = Negate(Pow10(21))
    /\ res = Ok(ts)

\* C2: within one encoded form, a.ms < b.ms exactly when encode(a) sorts
\* strictly before encode(b) in code-point order.
OrderPreserved ==
    op = "compared" => (SLt(ts, other) <=> StrLt(text, otherText))

OrderPreservedWitness ==
    /\ op = "compared"
    /\ alphabet = "Lexical64"
    /\ ts = OfInt(-1, 16)
    /\ other = OfInt(0, 16)
    /\ StrLt(text, otherText)

\* C3: the sign flip preserves order (signed order of the inputs, unsigned
\* order of the outputs), is injective, reaches every unsigned value (ts's
\* bytes read as an unsigned u have the preimage delexify(u)), and delexify
\* undoes lexify.
SignFlipBijective ==
    op = "lexified" =>
        LET l == res.value[1]
            r == res.value[2]
        IN  /\ SLt(ts, other) => ULt(l, r)
            /\ ts # other => l # r
            /\ delexify(l) = ts
            /\ delexify(r) = other
            /\ lexify(delexify(ts)) = ts

SignFlipWitness ==
    /\ op = "lexified"
    /\ ts = I128_MIN
    /\ other = OfInt(1, 16)
    /\ res.value[1] = Fill(16, 0)

\* The number of symbols the claim gives for each encoded form.
EncodedLength(a) ==
    CASE a = "Lexical16" -> 32
      [] a = "Lexical32" -> 26
      [] a = "LexicalGeohash" -> 26
      [] a = "Lexical64" -> 22

SymbolSet(a) == {SymbolsOf(a)[i] : i \in 1..Len(SymbolsOf(a))}

\* The number of bytes the characters of s decode to; -1 when s is not
\* decodable in encoded form a.
PayloadLength(a, s) ==
    LET d == IF a = "Lexical16" THEN HexDecode(s)
             ELSE IF a = "Lexical32" THEN Encoding_decode_mut(BASE32HEX_NOPAD, s)
             ELSE IF a = "LexicalGeohash" THEN Encoding_decode_mut(GEOHASH, s)
             ELSE Encoding_decode_mut(LEXICAL64, s)
    IN  IF IsOk(d) THEN Len(d.value) ELSE -1

\* C10: whatever the magnitude of ms, the output has the encoded form's
\* constant length, every character of it is a symbol of the alphabet (no
\* padding is added), and it carries all 16 bytes.
FixedWidth ==
    op = "serialized" =>
        /\ Len(text) = EncodedLength(alphabet)
        /\ \A j \in 1..Len(text) : text[j] \in SymbolSet(alphabet)
        /\ PayloadLength(alphabet, text) = 16

FixedWidthWitness ==
    /\ op = "serialized"
    /\ alphabet = "Lexical32"
    /\ ts = OfInt(1, 16)
    /\ Len(text) = 26

\* C4: an input whose payload decodes to a byte length other than 16 is
\* answered with a decode error: no abort, no timestamp built from a prefix.
WrongLengthIsError ==
    (op = "decoded" /\ PayloadLength(alphabet, text) \notin {-1, 16})
        => res.kind = "Err"

\* C5: an input of the correct length with a symbol outside the alphabet is
\* answered with a decode error and never yields a timestamp.
IllegalSymbolIsError ==
    (/\ op = "decoded"
     /\ Len(text) = EncodedLength(alphabet)
     /\ \E j \in 1..Len(text) : text[j] \notin SymbolSet(alphabet))
        => res.kind = "Err"

-----------------------------------------------------------------------------
(* Properties of the conversions and of the display. *)

InI64Range(n) ==
    /\ ~SLt(n, SignExtend(I64_MIN, 16))
    /\ ~SLt(SignExtend(I64_MAX, 16), n)

\* C6: timestamp_millis returns Ok(ms) exactly when ms lies within the 64-bit
\* signed range and a range error otherwise; for every 64-bit n,
\* Geotime::from(n).timestamp_millis() is Ok(n).
NarrowingExact ==
    op \in {"timestamp_millis", "narrowed"} =>
        /\ IsOk(res) <=> InI64Range(ts)
        /\ IsOk(res) => SignExtend(res.value, 16) = ts
        /\ ~IsOk(res) => res = Err("TryFromInt")
        /\ op = "narrowed" => res = Ok(narrow)

NarrowingWitness ==
    /\ op = "narrowed"
    /\ narrow = I64_MIN
    /\ res = Ok(I64_MIN)

\* C7: for every calendar instant t, DateTime::try_from(Geotime::from(&t))
\* succeeds and equals t at millisecond precision.
CalendarRoundTrip ==
    op = "calendar_roundtrip" =>
        /\ IsOk(res)
        /\ DateTime_timestamp_millis(res.value) = DateTime_timestamp_millis(dt)

\* ms mod 1000, in 0..999, of a 64-bit ms.
FloorMod1000(ms) == (TruncRem(ms, 1000) + 1000) % 1000

\* floor(ms / 1000) of a 64-bit ms.
FloorDiv1000(ms) ==
    IF TruncRem(ms, 1000) < 0
    THEN AddBytes(TruncDiv(ms, 1000), OfInt(-1, 8))
    ELSE TruncDiv(ms, 1000)

\* C8: try_from hands the calendar floor(ms / 1000) whole seconds and a
\* sub-second component of ms mod 1000 milliseconds, in 0..999, for negative
\* ms as for the others.
FloorSplit ==
    (op \in {"try_from", "calendar_roundtrip"} /\ chrono.called) =>
        LET ms == SubSeq(ts, 9, 16)
        IN  /\ chrono.secs = FloorDiv1000(ms)
            /\ chrono.nsecs = OfInt(FloorMod1000(ms) * 1000000, 4)

\* |ms| is at least `years` years of 356 days below 10^12 years.
WellBelowCeiling(n, years) ==
    ULt(AddBytes(Magnitude(n), Mul(MILLISECONDS_IN_YEAR_APPROX(16), years)),
        CeilingYears)

\* C9: display_string returns a string for every ms, of exactly one tier: the
\* calendar rendering when try_from succeeds; otherwise the year count with
\* unit "years" when the absolute approximate year count is below 10^12;
\* otherwise the debug form of the raw integer with unit "ms".  The two
\* fallback tiers end with "ago" for a negative ms, with "from now" otherwise.
DisplayTiers ==
    op = "display" =>
        /\ IsOk(res)
        /\ res.value.tier =
              IF IsOk(try_from(ts)) THEN "calendar"
              ELSE IF YearsBelow(AsF64(Magnitude(ts)), MAX_YEARS_EXP) THEN "years"
              ELSE "debug"
        /\ (~IsOk(try_from(ts)) /\ WellBelowCeiling(ts, 1))
              => res.value.tier = "years"
        /\ (~IsOk(try_from(ts)) /\ ~ULt(Magnitude(ts), CeilingYears))
              => res.value.tier = "debug"
        /\ res.value.tier = "years" => res.value.unit = "years"
        /\ res.value.tier = "debug" => res.value.unit = "ms" /\ res.value.desc = ts
        /\ res.value.tier # "calendar"
              => res.value.dir = IF IsNeg(ts) THEN "ago" ELSE "from now"

DisplayWitness ==
    /\ op = "display"
    /\ ts = I128_MIN
    /\ IsOk(res)
    /\ res.value.tier = "debug"
    /\ res.value.dir = "ago"

-----------------------------------------------------------------------------
(* The encoded strings against a reference rendering, and canonical         *)
(* decoding.                                                                *)

\* The number of bits one symbol of an encoded form stands for.
GroupBits(a) ==
    CASE a = "Lexical16" -> 4
      [] a = "Lexical32" -> 5
      [] a = "LexicalGeohash" -> 5
      [] a = "Lexical64" -> 6

\* The 128 bits of ms XOR 2^127, most significant first: the top bit of ms
\* inverted, the other 127 as they are.
FlippedBits(n) ==
    LET bits == Bits(n)
    IN  [i \in 1..128 |-> IF i = 1 THEN 1 - bits[1] ELSE bits[i]] \o <<>>

\* Group g (from 1) of w bits, zero-filled on the right past the last bit.
GroupRank(bits, g, w) ==
    LET b(k) == IF k <= w /\ (g - 1) * w + k <= Len(bits)
                THEN bits[(g - 1) * w + k] * Pow2(w - k) ELSE 0
    IN  b(1) + b(2) + b(3) + b(4) + b(5) + b(6)

Reference(a, n) ==
    LET w    == GroupBits(a)
        bits == FlippedBits(n)
    IN  [g \in 1..((128 + w - 1) \div w) |->
            SymbolsOf(a)[GroupRank(bits, g, w) + 1]] \o <<>>

\* C11: the encoded string of each form is the reference rendering of the
\* 128 bits of ms XOR 2^127 in groups of 4, 5 or 6 bits; hex gives
\* 0 -> "80000000000000000000000000000000",
\* -1 -> "7fffffffffffffffffffffffffffffff",
\* 100 -> "80000000000000000000000000000064", and lexical64 gives
\* 0 -> "V000000000000000000000" and 1 -> "V00000000000000000000F".
ReferenceRendering ==
    op = "serialized" =>
        /\ text = Reference(alphabet, ts)
        /\ (alphabet = "Lexical16" /\ ts = OfInt(0, 16))
              => text = <<56>> \o Fill(31, 48)
        /\ (alphabet = "Lexical16" /\ ts = OfInt(-1, 16))
              => text = <<55>> \o Fill(31, 102)
        /\ (alphabet = "Lexical16" /\ ts = OfInt(100, 16))
              => text = <<56>> \o Fill(29, 48) \o <<54, 52>>
        /\ (alphabet = "Lexical64" /\ ts = OfInt(0, 16))
              => text = <<86>> \o Fill(21, 48)
        /\ (alphabet = "Lexical64" /\ ts = OfInt(1, 16))
              => text = <<86>> \o Fill(20, 48) \o <<70>>

ReferenceRenderingWitness ==
    /\ op = "serialized"
    /\ alphabet = "Lexical64"
    /\ ts = OfInt(1, 16)
    /\ text = <<86>> \o Fill(20, 48) \o <<70>>

\* C12: every string that deserializes is the serialization of the
\* timestamp it gives, so no two accepted strings give the same timestamp.
CanonicalDecoding ==
    (op \in {"roundtrip", "decoded"} /\ IsOk(res))
        => serialize(alphabet, res.value) = text

=============================================================================
